---- MODULE Spec2Model ----
(***************************************************************************)
(* A model of angr's Surveyor (surveyor.py): the four path lists, the      *)
(* round counter, tick / trim / untrim, the run loop and the process-wide  *)
(* STOP_RUNS / PAUSE_RUNS flags.                                           *)
(*                                                                         *)
(* A Path object is modelled by its identity, a positive integer; every    *)
(* construction of a Path (analyze_exit, the successors returned by        *)
(* continue_path) allocates the next unused identity.  What a step of a    *)
(* path yields (how many successors, whether p.errored is non-empty) is    *)
(* outside the scheduler and is drawn nondeterministically.                *)
(*                                                                         *)
(* An optional argument (start, starts, max_concurrency, n) is a sequence  *)
(* of length at most one: << >> is None and <<v>> is the value v.          *)
(***************************************************************************)
EXTENDS Integers, Sequences, FiniteSets, Bags, TLC

\* ---------------------------------------------------------------- bounds
MaxPaths  == 4     \* Path objects ever constructed
MaxSucc   == 3     \* successors returned by one tick_path call
MaxStarts == 1     \* length of the starts argument
MaxLimit  == 2     \* largest explicit max_concurrency argument
MaxTick   == 2     \* ticks performed
MaxN      == 2     \* largest explicit n argument of run
MaxSeedStarts == 3 \* length of starts where the constructor's arguments are kept
MaxFaults == 1     \* calls of tick that a faulting step function ends

\* ------------------------------------------------------ program constants
DefaultConcurrency == 10

VARIABLES
    active, deadended, trimmed, errored,   \* self.active, ... (lists of paths)
    current_tick,                          \* self._current_tick
    max_concurrency,                       \* self._max_concurrency
    STOP_RUNS, PAUSE_RUNS,                 \* module globals
    pc,                                    \* position of the caller / of run
    n,                                     \* run's local n
    next_path,                             \* identity of the next Path object
    op,                                    \* the last method that acted
    pre,                                   \* the scheduler's state before it acted
    stepped,                               \* what the last tick stepped
    pair,                                  \* a trim, untrim pair in progress
    runlog,                                \* bookkeeping of the current run
    ctor,                                  \* the arguments start and starts, when kept
    excluded,                              \* the paths an overriding trim_path excludes
    dropped,                               \* the paths the filter of trim has removed
    faults                                 \* the ticks a fault of tick_path has ended

sched == <<active, deadended, trimmed, errored, current_tick>>
flags == <<STOP_RUNS, PAUSE_RUNS>>
hist  == <<op, pre, stepped, pair, dropped, faults>>
config == <<max_concurrency, ctor, excluded>>
vars  == <<active, deadended, trimmed, errored, current_tick, max_concurrency,
           STOP_RUNS, PAUSE_RUNS, pc, n, next_path, op, pre, stepped,
           pair,
           runlog, ctor, excluded, dropped, faults>>

\* ------------------------------------------------------------- helpers
None == << >>
Some(v) == <<v>>
IsNone(o) == Len(o) = 0
Val(o) == o[1]

Min(a, b) == IF a < b THEN a ELSE b
Max(a, b) == IF a > b THEN a ELSE b

Range(s) == {s[i] : i \in 1..Len(s)}

\* Python's normalisation of a slice bound k for a list of length len.
PyBound(k, len) == IF k < 0 THEN Max(k + len, 0) ELSE Min(k, len)

\* paths[:k]
SliceTo(paths, k) == SubSeq(paths, 1, PyBound(k, Len(paths)))

\* paths[k:]
SliceFrom(paths, k) == SubSeq(paths, PyBound(k, Len(paths)) + 1, Len(paths))

RECURSIVE BagOfSeq(_)
\* The multiset of the elements of a sequence.
BagOfSeq(s) ==
    IF Len(s) = 0 THEN EmptyBag ELSE SetToBag({s[1]}) (+) BagOfSeq(Tail(s))

\* The state of the scheduler as one record.
Snapshot ==
    [active |-> active, deadended |-> deadended, trimmed |-> trimmed,
     errored |-> errored, current_tick |-> current_tick]

\* The paths that are alive and schedulable, with multiplicity.
Pool(act, trm) == BagOfSeq(act \o trm)

\* ------------------------------------------------------------ construction
\* analyze_exit: self.active.append(Path(project=self._project, entry=e)).
\* st is the pair <<active, next_path>>; the Path constructed is a new object.
analyze_exit(st, e) == <<Append(st[1], st[2]), st[2] + 1>>

RECURSIVE analyze_starts(_, _, _)
\* for e in starts: self.analyze_exit(e)
analyze_starts(st, starts, i) ==
    IF i > Len(starts) THEN st
    ELSE analyze_starts(analyze_exit(st, starts[i]), starts, i + 1)

\* The three seeding statements of __init__, in the order of the code.
\* The start units are entry points; the model names them by integers.
InitialExit == 0
SeedActive(start, starts) ==
    LET s0 == <<<< >>, 1>>
        s1 == IF ~IsNone(start) THEN analyze_exit(s0, Val(start)) ELSE s0
        s2 == IF ~IsNone(starts) THEN analyze_starts(s1, Val(starts), 1) ELSE s1
        s3 == IF IsNone(start) /\ IsNone(starts)
              THEN analyze_exit(s2, InitialExit) ELSE s2
    IN  s3

\* self._max_concurrency = 10 if max_concurrency is None else max_concurrency
InitConcurrency(arg) == IF IsNone(arg) THEN DefaultConcurrency ELSE Val(arg)

StartsArgs == {None} \cup {Some([i \in 1..k |-> 100 + i]) : k \in 0..MaxStarts}
StartArgs  == {None, Some(100)}
LimitArgs  == {None} \cup {Some(k) : k \in -1..MaxLimit}
NArgs      == {None} \cup {Some(k) : k \in -1..MaxN}

\* runlog: status of the last call of run, its argument n0, the iterations of
\* the loop it has begun, the round counter at the call, the state at the call
\* (kept when the call finds done or n <= 0), the state at the end of the last
\* completed round, the value of STOP_RUNS the last time the loop read it,
\* the state a stopped run left behind when run is called again right after,
\* and the ticks the run has started since STOP_RUNS was last set.
NoRun == [status |-> "none", n0 |-> None, rounds |-> 0, tick0 |-> 0,
          entry |-> << >>, round_end |-> << >>, stop_seen |-> FALSE,
          resumed_from |-> << >>, late |-> 0]
NoPair == [phase |-> "none", pool |-> EmptyBag, parked |-> 0]

\* __init__: the state of a new Surveyor.
Construct(start, starts, limit) ==
    LET seed == SeedActive(start, starts) IN
    /\ active = seed[1]
    /\ next_path = seed[2]
    /\ deadended = << >>
    /\ trimmed = << >>
    /\ errored = << >>
    /\ current_tick = 0
    /\ max_concurrency = InitConcurrency(limit)
    /\ STOP_RUNS = FALSE
    /\ PAUSE_RUNS = FALSE
    /\ pc = "idle"
    /\ n = None
    /\ op = "init"
    /\ pre = [active |-> seed[1], deadended |-> << >>, trimmed |-> << >>,
              errored |-> << >>, current_tick |-> 0]
    /\ pair = NoPair
    /\ stepped = << >>
    /\ runlog = NoRun
    /\ dropped = {}
    /\ faults = 0

\* A Surveyor with the default trim_path; the object does not keep start and
\* starts.
Init ==
    \E start \in StartArgs, starts \in StartsArgs, limit \in LimitArgs :
        /\ Construct(start, starts, limit)
        /\ ctor = None
        /\ excluded = {}

\* --------------------------------------------------------------- tick
\* What the step of one path yields: the number of successors returned by
\* tick_path and whether len(p.errored) > 0 afterwards.
StepOutcome == [k : 0..MaxSucc, err : BOOLEAN]

\* tick_path(p): p.continue_path(), a sequence of k newly constructed paths.
tick_path(p, k, first) == [j \in 1..k |-> first + j - 1]

\* len(p.errored) > 0
has_errored(outcome) == outcome.err

\* len(successors) == 0
is_deadended(successors) == Len(successors) = 0

\* A tick that puts the successors in front of the ones collected so far.
extend_active_front(new_active, successors) == successors \o new_active

\* new_active.extend(successors)
extend_active(new_active, successors) == new_active \o successors

\* The list the for loop of tick iterates over.
tick_iterated(act, new_active) == act

\* A loop body whose second test is an elif of the first: a path that has
\* error records is never recorded as deadended.
tick_body_elif(p, outcome, acc) ==
    LET successors == tick_path(p, outcome.k, acc.next_path) IN
    [new_active |-> extend_active(acc.new_active, successors),
     errored    |-> IF has_errored(outcome) THEN Append(acc.errored, p)
                    ELSE acc.errored,
     deadended  |-> IF ~has_errored(outcome) /\ is_deadended(successors)
                    THEN Append(acc.deadended, p) ELSE acc.deadended,
     next_path  |-> acc.next_path + outcome.k,
     stepped    |-> Append(acc.stepped,
                           [path |-> p, successors |-> successors,
                            err |-> outcome.err])]

\* A loop body that keeps only the latest path with error records.
tick_body_resets_errored(p, outcome, acc) ==
    LET successors == tick_path(p, outcome.k, acc.next_path) IN
    [new_active |-> extend_active(acc.new_active, successors),
     errored    |-> IF has_errored(outcome) THEN <<p>> ELSE acc.errored,
     deadended  |-> IF is_deadended(successors) THEN Append(acc.deadended, p)
                    ELSE acc.deadended,
     next_path  |-> acc.next_path + outcome.k,
     stepped    |-> Append(acc.stepped,
                           [path |-> p, successors |-> successors,
                            err |-> outcome.err])]

\* A loop body that keeps the stepped path itself in the next active.
tick_body_keeps_path(p, outcome, acc) ==
    LET successors == tick_path(p, outcome.k, acc.next_path) IN
    [new_active |-> extend_active(Append(acc.new_active, p), successors),
     errored    |-> IF has_errored(outcome) THEN Append(acc.errored, p)
                    ELSE acc.errored,
     deadended  |-> IF is_deadended(successors) THEN Append(acc.deadended, p)
                    ELSE acc.deadended,
     next_path  |-> acc.next_path + outcome.k,
     stepped    |-> Append(acc.stepped,
                           [path |-> p, successors |-> successors,
                            err |-> outcome.err])]

\* One iteration of the loop body of tick, on the accumulator acc.
tick_body(p, outcome, acc) ==
    LET successors == tick_path(p, outcome.k, acc.next_path) IN
    [new_active |-> extend_active(acc.new_active, successors),
     errored    |-> IF has_errored(outcome) THEN Append(acc.errored, p)
                    ELSE acc.errored,
     deadended  |-> IF is_deadended(successors) THEN Append(acc.deadended, p)
                    ELSE acc.deadended,
     next_path  |-> acc.next_path + outcome.k,
     stepped    |-> Append(acc.stepped,
                           [path |-> p, successors |-> successors,
                            err |-> outcome.err])]

RECURSIVE tick_loop(_, _, _, _)
\* for p in self.active: ...
tick_loop(act, outcomes, i, acc) ==
    IF i > Len(tick_iterated(act, acc.new_active)) \/ i > Len(outcomes) THEN acc
    ELSE tick_loop(act, outcomes, i + 1,
                   tick_body(tick_iterated(act, acc.new_active)[i],
                             outcomes[i], acc))

RECURSIVE SumK(_, _)
SumK(outcomes, i) ==
    IF i > Len(outcomes) THEN 0 ELSE outcomes[i].k + SumK(outcomes, i + 1)

\* A tick that counts only the rounds that stepped a path.
next_tick_if_stepped(t) == IF Len(active) = 0 THEN t ELSE t + 1

\* self._current_tick += 1
next_tick(t) == t + 1

\* The result of the loop of tick on the current state.
tick_result(outcomes) ==
    tick_loop(active, outcomes, 1,
              [new_active |-> << >>, errored |-> errored,
               deadended |-> deadended, next_path |-> next_path,
               stepped |-> << >>])

\* tick(): the whole method, for one choice of what each step yields.
tick(outcomes) ==
    LET acc == tick_result(outcomes)
    IN  /\ active' = acc.new_active
        /\ errored' = acc.errored
        /\ deadended' = acc.deadended
        /\ next_path' = acc.next_path
        /\ current_tick' = next_tick(current_tick)
        /\ UNCHANGED <<trimmed, config>>

\* The outcomes the environment may produce for a tick of the current state.
TickOutcomes ==
    {o \in [1..Len(active) -> StepOutcome] :
        next_path - 1 + SumK(o, 1) <= MaxPaths}

\* The outcomes of the steps that return before tick_path raises in a tick of
\* the current state: one for each path in front of the one whose step faults.
FaultOutcomes ==
    {o \in UNION {[1..j -> StepOutcome] : j \in 0..(Len(active) - 1)} :
        next_path - 1 + SumK(o, 1) <= MaxPaths}

\* A tick that assigns the successors collected so far when a step faults.
tick_fault_active_partial(acc) == acc.new_active

\* self.active when the exception leaves the loop: line 139 is not reached.
tick_fault_active(acc) == active

\* tick() when self.tick_path(p) raises at the path after those of outcomes:
\* the appends of the earlier iterations have acted on self.errored and
\* self.deadended, new_active is lost, lines 139 and 140 are not reached.
tick_fault(outcomes) ==
    LET acc == tick_result(outcomes)
    IN  /\ active' = tick_fault_active(acc)
        /\ errored' = acc.errored
        /\ deadended' = acc.deadended
        /\ next_path' = acc.next_path
        /\ UNCHANGED <<current_tick, trimmed, config>>

\* --------------------------------------------------------------- trim
\* trim_path(p): False by default; a subclass that overrides it returns True
\* for the paths of excluded.
trim_path(p) == p \in excluded

\* A filter step that hands the surviving paths on in reverse order.
individual_trim_reversed(paths) ==
    LET kept == SelectSeq(paths, LAMBDA p : ~trim_path(p))
    IN  [i \in 1..Len(kept) |-> kept[Len(kept) + 1 - i]]

\* [ p for p in self.active if not self.trim_path(p) ]
individual_trim(paths) == SelectSeq(paths, LAMBDA p : ~trim_path(p))

\* A trim_paths whose overflow slice starts one element late.
trim_paths_overflow_late(paths) == SliceFrom(paths, max_concurrency + 1)

\* trim_paths: self.trimmed += paths[self._max_concurrency:]
trim_paths_overflow(paths) == SliceFrom(paths, max_concurrency)

\* A trim_paths that returns the sequence it was given, uncapped.
trim_paths_kept_uncapped(paths) == paths

\* trim_paths: return paths[:self._max_concurrency]
trim_paths_kept(paths) == SliceTo(paths, max_concurrency)

\* A trim that parks the paths its filter excluded behind the overflow.
trim_parking_excluded ==
    LET new_active == individual_trim(active) IN
    /\ trimmed' = trimmed \o trim_paths_overflow(new_active)
                         \o SelectSeq(active, LAMBDA p : trim_path(p))
    /\ active' = trim_paths_kept(new_active)
    /\ UNCHANGED <<deadended, errored, current_tick, config,
                   next_path>>

\* trim()
trim ==
    LET new_active == individual_trim(active) IN
    /\ trimmed' = trimmed \o trim_paths_overflow(new_active)
    /\ active' = trim_paths_kept(new_active)
    /\ UNCHANGED <<deadended, errored, current_tick, config,
                   next_path>>

\* --------------------------------------------------------------- untrim
\* An available that forgets the paths already active.
available_ignoring_active == max_concurrency

\* available = self._max_concurrency - len(self.active)
available == max_concurrency - Len(active)

\* An untrim that never finds room.
untrim_guard_never == FALSE

\* An untrim that waits until two places are free.
untrim_guard_needs_two == available > 1 /\ Len(trimmed) > 0

\* if available > 0 and len(self.trimmed) > 0
untrim_guard == available > 0 /\ Len(trimmed) > 0

\* self.active += self.trimmed[:available]
untrim_active == active \o SliceTo(trimmed, available)

\* An untrim that leaves the paths it returned in trimmed.
untrim_trimmed_kept == trimmed

\* self.trimmed = self.trimmed[available:]
untrim_trimmed == SliceFrom(trimmed, available)

\* untrim()
untrim ==
    /\ IF untrim_guard
       THEN /\ active' = untrim_active
            /\ trimmed' = untrim_trimmed
       ELSE UNCHANGED <<active, trimmed>>
    /\ UNCHANGED <<deadended, errored, current_tick, config,
                   next_path>>

\* --------------------------------------------------------------- done
\* len(self.active) == 0
done == Len(active) = 0

\* ------------------------------------------------------- history variables
\* Records that method o acts on the current state; log is what a tick
\* stepped.  pair follows a trim that is immediately followed by an untrim,
\* with the pool before the trim.
Record(o, log) ==
    /\ stepped' = log
    /\ op' = o
    /\ pre' = Snapshot
    /\ faults' = IF o = "tick_fault" THEN faults + 1 ELSE faults
    /\ dropped' = IF o = "trim"
                  THEN dropped \cup {p \in Range(active) : trim_path(p)}
                  ELSE dropped
    /\ pair' = CASE o = "trim" -> [phase |-> "trim", pool |-> Pool(active, trimmed),
                                    parked |-> Len(trimmed)]
                 [] o = "untrim" /\ pair.phase = "trim" ->
                        [pair EXCEPT !.phase = "pair"]
                 [] OTHER -> NoPair

\* --------------------------------------------- operations called directly
Tick ==
    /\ pc = "idle"
    /\ current_tick < MaxTick
    /\ \E o \in TickOutcomes : tick(o) /\ Record("tick", tick_result(o).stepped)
    /\ runlog' = NoRun
    /\ UNCHANGED <<flags, pc, n>>

\* tick() called by the user, ended by a fault of the step function.
TickFault ==
    /\ pc = "idle"
    /\ faults < MaxFaults
    /\ \E o \in FaultOutcomes :
           tick_fault(o) /\ Record("tick_fault", tick_result(o).stepped)
    /\ runlog' = NoRun
    /\ UNCHANGED <<flags, pc, n>>

Trim ==
    /\ pc = "idle"
    /\ trim
    /\ Record("trim", << >>)
    /\ runlog' = NoRun
    /\ UNCHANGED <<flags, pc, n>>

Untrim ==
    /\ pc = "idle"
    /\ untrim
    /\ Record("untrim", << >>)
    /\ runlog' = NoRun
    /\ UNCHANGED <<flags, pc, n>>

\* ------------------------------------------------------------ control plane
stop_analyses ==
    /\ STOP_RUNS' = TRUE
    /\ UNCHANGED <<sched, config, PAUSE_RUNS, pc, n, next_path, hist,
                   runlog>>

result_analyses ==
    /\ STOP_RUNS' = FALSE
    /\ runlog' = [runlog EXCEPT !.late = 0]
    /\ UNCHANGED <<sched, config, PAUSE_RUNS, pc, n, next_path, hist>>

enable_singlestep ==
    /\ PAUSE_RUNS' = TRUE
    /\ UNCHANGED <<sched, config, STOP_RUNS, pc, n, next_path, hist,
                   runlog>>

disable_singlestep ==
    /\ PAUSE_RUNS' = FALSE
    /\ UNCHANGED <<sched, config, STOP_RUNS, pc, n, next_path, hist,
                   runlog>>

\* ------------------------------------------------------------------- run
\* while not self.done and (n is None or n > 0)
loop_condition == ~done /\ (IsNone(n) \/ Val(n) > 0)

\* A loop that never looks at STOP_RUNS.
observes_stop_never == FALSE

\* if STOP_RUNS: ... break
observes_stop == STOP_RUNS

\* if PAUSE_RUNS: ... pdb.set_trace()
observes_pause == PAUSE_RUNS

\* A loop that never spends its budget.
decrement_never(k) == k

\* if n is not None: n -= 1
decrement(k) == IF IsNone(k) THEN k ELSE Some(Val(k) - 1)

\* The caller invokes run(n=k).
RunCall ==
    /\ pc = "idle"
    /\ \E k \in NArgs :
        /\ n' = k
        /\ runlog' = [status |-> "running", n0 |-> k, rounds |-> 0,
                      tick0 |-> current_tick,
                      entry |-> IF done \/ (~IsNone(k) /\ Val(k) <= 0)
                                THEN Snapshot ELSE << >>,
                      round_end |-> << >>,
                      stop_seen |-> FALSE,
                      resumed_from |-> IF runlog.status = "stopped"
                                       THEN runlog.round_end ELSE << >>,
                      late |-> 0]
    /\ pc' = "run_while"
    /\ UNCHANGED <<sched, config, flags, next_path, hist>>

\* The caller invokes run() with no budget.
RunToCompletion ==
    /\ pc = "idle"
    /\ n' = None
    /\ runlog' = [status |-> "running", n0 |-> None, rounds |-> 0,
                  tick0 |-> current_tick,
                  entry |-> IF done THEN Snapshot ELSE << >>,
                  round_end |-> << >>,
                  stop_seen |-> FALSE,
                  resumed_from |-> << >>,
                  late |-> 0]
    /\ pc' = "run_while"
    /\ UNCHANGED <<sched, config, flags, next_path, hist>>

\* The test of the while loop; run returns when it fails.
RunWhile ==
    /\ pc = "run_while"
    /\ IF loop_condition
       THEN /\ pc' = "run_tick"
            /\ runlog' = [runlog EXCEPT !.rounds = @ + 1,
                                        !.round_end = << >>]
            /\ UNCHANGED n
       ELSE /\ pc' = "idle"
            /\ n' = None
            /\ runlog' = [runlog EXCEPT !.status = "returned"]
    /\ UNCHANGED <<sched, config, flags, next_path, hist>>

\* A run that looks at STOP_RUNS right after the tick, in the middle of a
\* round.
RunTickStopsMidRound ==
    /\ pc = "run_tick"
    /\ current_tick < MaxTick
    /\ \E o \in TickOutcomes : tick(o) /\ Record("tick", tick_result(o).stepped)
    /\ IF STOP_RUNS
       THEN /\ pc' = "idle"
            /\ n' = None
            /\ runlog' = [runlog EXCEPT !.status = "stopped"]
       ELSE /\ pc' = "run_trim"
            /\ UNCHANGED <<n, runlog>>
    /\ UNCHANGED flags

\* self.tick()
RunTick ==
    /\ pc = "run_tick"
    /\ current_tick < MaxTick
    /\ \E o \in TickOutcomes : tick(o) /\ Record("tick", tick_result(o).stepped)
    /\ pc' = "run_trim"
    /\ runlog' = [runlog EXCEPT !.late = IF STOP_RUNS THEN @ + 1 ELSE 0]
    /\ UNCHANGED <<flags, n>>

\* self.tick() raises: the exception leaves run.
RunTickFault ==
    /\ pc = "run_tick"
    /\ faults < MaxFaults
    /\ \E o \in FaultOutcomes :
           tick_fault(o) /\ Record("tick_fault", tick_result(o).stepped)
    /\ pc' = "idle"
    /\ n' = None
    /\ runlog' = [runlog EXCEPT !.status = "raised"]
    /\ UNCHANGED flags

\* self.tick(), as many times as the exploration lasts.
RunTickUncapped ==
    /\ pc = "run_tick"
    /\ \E o \in TickOutcomes : tick(o) /\ Record("tick", tick_result(o).stepped)
    /\ pc' = "run_trim"
    /\ runlog' = [runlog EXCEPT !.late = IF STOP_RUNS THEN @ + 1 ELSE 0]
    /\ UNCHANGED <<flags, n>>

\* self.trim()
RunTrim ==
    /\ pc = "run_trim"
    /\ trim
    /\ Record("trim", << >>)
    /\ pc' = "run_untrim"
    /\ runlog' = [runlog EXCEPT !.resumed_from = << >>]
    /\ UNCHANGED <<flags, n>>

\* self.untrim()
RunUntrim ==
    /\ pc = "run_untrim"
    /\ untrim
    /\ Record("untrim", << >>)
    /\ pc' = "run_stop"
    /\ runlog' = [runlog EXCEPT !.round_end =
                    [active |-> active', deadended |-> deadended',
                     trimmed |-> trimmed', errored |-> errored',
                     current_tick |-> current_tick']]
    /\ UNCHANGED <<flags, n>>

\* if STOP_RUNS: break
RunCheckStop ==
    /\ pc = "run_stop"
    /\ IF observes_stop
       THEN /\ pc' = "idle"
            /\ n' = None
            /\ runlog' = [runlog EXCEPT !.status = "stopped",
                                        !.stop_seen = STOP_RUNS]
       ELSE /\ pc' = "run_pause"
            /\ runlog' = [runlog EXCEPT !.stop_seen = STOP_RUNS]
            /\ UNCHANGED n
    /\ UNCHANGED <<sched, config, flags, next_path, hist>>

\* if PAUSE_RUNS: pdb.set_trace()
RunCheckPause ==
    /\ pc = "run_pause"
    /\ pc' = IF observes_pause THEN "pdb" ELSE "run_dec"
    /\ UNCHANGED <<sched, config, flags, n, next_path, hist, runlog>>

\* The user leaves the debugger that pdb.set_trace() entered.
PdbContinue ==
    /\ pc = "pdb"
    /\ pc' = "run_dec"
    /\ UNCHANGED <<sched, config, flags, n, next_path, hist, runlog>>

\* if n is not None: n -= 1; then back to the loop test
RunDecrement ==
    /\ pc = "run_dec"
    /\ n' = decrement(n)
    /\ pc' = "run_while"
    /\ UNCHANGED <<sched, config, flags, next_path, hist, runlog>>

\* ------------------------------------------------------------ specification
Next ==
    \/ Tick
    \/ Trim
    \/ Untrim
    \/ RunCall
    \/ RunWhile
    \/ RunTick
    \/ RunTrim
    \/ RunUntrim
    \/ RunCheckStop
    \/ RunCheckPause
    \/ PdbContinue
    \/ RunDecrement
    \/ stop_analyses
    \/ result_analyses
    \/ enable_singlestep
    \/ disable_singlestep

Spec == Init /\ [][Next]_vars

\* Executions that consist of construction followed only by calls of run,
\* with the control plane acting at any time.
NextRunOnly ==
    \/ RunCall
    \/ RunWhile
    \/ RunTick
    \/ RunTrim
    \/ RunUntrim
    \/ RunCheckStop
    \/ RunCheckPause
    \/ PdbContinue
    \/ RunDecrement
    \/ stop_analyses
    \/ result_analyses
    \/ enable_singlestep
    \/ disable_singlestep

SpecRunOnly == Init /\ [][NextRunOnly]_vars

\* Executions in which nobody touches the control plane: direct calls of
\* tick, trim and untrim, and calls of run.
NextQuiet ==
    \/ Tick
    \/ Trim
    \/ Untrim
    \/ RunCall
    \/ RunWhile
    \/ RunTick
    \/ RunTrim
    \/ RunUntrim
    \/ RunCheckStop
    \/ RunCheckPause
    \/ RunDecrement

SpecQuiet == Init /\ [][NextQuiet]_vars

\* Executions in which the caller drives tick, trim and untrim itself.
NextDirect ==
    \/ Tick
    \/ Trim
    \/ Untrim

\* __init__ with the arguments start and starts kept beside the object, and
\* sequences of up to MaxSeedStarts start units.
StartsArgsSeed ==
    {None} \cup {Some([i \in 1..k |-> 100 + i]) : k \in 0..MaxSeedStarts}
InitCtor ==
    \E start \in StartArgs, starts \in StartsArgsSeed, limit \in LimitArgs :
        /\ Construct(start, starts, limit)
        /\ ctor = Some([start |-> start, starts |-> starts])
        /\ excluded = {}

SpecCtor == InitCtor /\ [][NextDirect]_vars

\* Executions in which the step function may fault: the caller calls run
\* without a budget, or calls tick itself and the step function faults; the
\* control plane stays idle.
NextFault ==
    \/ TickFault
    \/ RunToCompletion
    \/ RunWhile
    \/ RunTick
    \/ RunTrim
    \/ RunUntrim
    \/ RunCheckStop
    \/ RunCheckPause
    \/ RunDecrement
    \/ RunTickFault

SpecFault == Init /\ [][NextFault]_vars

\* run() driven to completion: a limit of at least 1, the default filter, no
\* budget, no stop request, an exploration of at most MaxPaths paths.  The
\* interpreter keeps executing the loop, which is the weak fairness of the
\* steps.
InitLive == Init /\ max_concurrency >= 1
NextLive ==
    \/ RunToCompletion
    \/ RunWhile
    \/ RunTickUncapped
    \/ RunTrim
    \/ RunUntrim
    \/ RunCheckStop
    \/ RunCheckPause
    \/ RunDecrement

SpecLive == InitLive /\ [][NextLive]_vars /\ WF_vars(NextLive)

\* A Surveyor of a subclass whose trim_path returns True for the paths of a
\* set fixed at construction.
InitFilter ==
    \E start \in StartArgs, starts \in StartsArgs, limit \in LimitArgs,
       ex \in SUBSET (1..MaxPaths) :
        /\ Construct(start, starts, limit)
        /\ ctor = None
        /\ excluded = ex

SpecFilter == InitFilter /\ [][NextDirect]_vars

TypeOK ==
    /\ pc \in {"idle", "run_while", "run_tick", "run_trim", "run_untrim",
               "run_stop", "run_pause", "pdb", "run_dec"}
    /\ current_tick \in 0..MaxTick

\* ================================================================== claims
RECURSIVE Flatten(_)
\* The concatenation of the successor sequences of a log of steps.
Flatten(log) ==
    IF Len(log) = 0 THEN << >> ELSE log[1].successors \o Flatten(Tail(log))

\* The paths of the steps of a log that satisfy Test, in order.
PathsWhere(log, Test(_)) ==
    LET sel == SelectSeq(log, Test) IN [i \in 1..Len(sel) |-> sel[i].path]

NoSuccessors(step) == Len(step.successors) = 0
HasErrors(step) == step.err

IsPrefix(s, t) == Len(s) <= Len(t) /\ \A i \in 1..Len(s) : s[i] = t[i]

\* C1: after trim() with the default filter and bulk policy and a limit
\* N >= 0, len(active) <= N: active is the first min(N, len) paths of the
\* previous active in the same order, and the remaining paths are appended,
\* in order, to the back of trimmed.
C1_TrimCapsActive ==
    (op = "trim" /\ max_concurrency >= 0) =>
        LET old == pre.active
            m == Min(max_concurrency, Len(old))
        IN  /\ Len(active) <= max_concurrency
            /\ Len(active) = m
            /\ \A i \in 1..m : active[i] = old[i]
            /\ Len(trimmed) = Len(pre.trimmed) + (Len(old) - m)
            /\ \A i \in 1..Len(pre.trimmed) : trimmed[i] = pre.trimmed[i]
            /\ \A i \in 1..(Len(old) - m) :
                   trimmed[Len(pre.trimmed) + i] = old[m + i]

\* A trim with limit 2 of three active paths has kept two and parked one.
C1_Witness ==
    /\ op = "trim"
    /\ max_concurrency = 2
    /\ Len(pre.active) = 3
    /\ Len(active) = 2
    /\ Len(trimmed) = Len(pre.trimmed) + 1

\* C2: untrim() never increases len(active) beyond the limit: with
\* available = limit - len(active), if available > 0 and trimmed is non-empty
\* it moves exactly min(available, len(trimmed)) paths from the front of
\* trimmed to the back of active; otherwise active and trimmed are unchanged.
C2_UntrimMovesUpToAvailable ==
    op = "untrim" =>
        LET avail == max_concurrency - Len(pre.active)
            m == Min(avail, Len(pre.trimmed))
        IN  /\ Len(active) > Len(pre.active) => Len(active) <= max_concurrency
            /\ IF avail > 0 /\ Len(pre.trimmed) > 0
               THEN /\ active = pre.active \o SubSeq(pre.trimmed, 1, m)
                    /\ trimmed = SubSeq(pre.trimmed, m + 1, Len(pre.trimmed))
               ELSE /\ active = pre.active
                    /\ trimmed = pre.trimmed

\* An untrim has moved a parked path back while others stay parked.
C2_Witness ==
    /\ op = "untrim"
    /\ Len(active) > Len(pre.active)
    /\ Len(trimmed) > 0

\* C3: admission control neither creates nor destroys paths: the multiset of
\* paths in active plus trimmed is the same before and after trim(), before
\* and after untrim(), and before and after trim() followed by untrim(); the
\* total length after the pair never exceeds the total before it.
C3_AdmissionPreservesPool ==
    /\ op \in {"trim", "untrim"} =>
           Pool(active, trimmed) = Pool(pre.active, pre.trimmed)
    /\ pair.phase = "pair" =>
           /\ Pool(active, trimmed) = pair.pool
           /\ Len(active) + Len(trimmed) <= BagCardinality(pair.pool)

\* A trim that parked a path has been followed by an untrim.
C3_Witness ==
    /\ pair.phase = "pair"
    /\ op = "untrim"
    /\ Len(trimmed) > pair.parked
    /\ Len(active) > 0

\* C4: tick() steps each path of the snapshot of active taken at the start of
\* the call exactly once, in order, and never a successor produced in the same
\* call; afterwards active is the concatenation of the successor sequences of
\* the stepped paths, and a stepped path is appended to deadended if and only
\* if its step produced zero successors.
C4_TickStepsSnapshotOnce ==
    op = "tick" =>
        /\ Len(stepped) = Len(pre.active)
        /\ \A i \in 1..Len(stepped) : stepped[i].path = pre.active[i]
        /\ \A i \in 1..Len(stepped) :
               stepped[i].path \notin Range(Flatten(stepped))
        /\ active = Flatten(stepped)
        /\ deadended = pre.deadended \o PathsWhere(stepped, NoSuccessors)

\* A tick has stepped two paths, the first forking and the second deadending.
C4_Witness ==
    /\ op = "tick"
    /\ Len(stepped) >= 2
    /\ Len(stepped[1].successors) >= 2
    /\ Len(stepped[2].successors) = 0

\* C5: error recording is observational: a path whose error records are
\* non-empty when it is stepped is in errored after that tick whatever its
\* successor count (with zero successors it is in deadended too), all of its
\* successors are in the next active, and every remaining path of the snapshot
\* is still stepped.
C5_ErrorsAreObservational ==
    op = "tick" =>
        /\ errored = pre.errored \o PathsWhere(stepped, HasErrors)
        /\ Len(stepped) = Len(pre.active)
        /\ \A i \in 1..Len(stepped) :
               stepped[i].err =>
                   /\ stepped[i].path \in Range(errored)
                   /\ Len(stepped[i].successors) = 0 =>
                          stepped[i].path \in Range(deadended)
                   /\ Range(stepped[i].successors) \subseteq Range(active)

\* A tick has stepped a path with error records and no successors, and then
\* another path with error records that forked.
C5_Witness ==
    /\ op = "tick"
    /\ Len(stepped) >= 2
    /\ stepped[1].err /\ Len(stepped[1].successors) = 0
    /\ stepped[2].err /\ Len(stepped[2].successors) > 0

\* C6: a path whose step produced zero successors is in deadended after that
\* round's tick and, after any later sequence of tick / trim / untrim / run,
\* never again appears in active nor in trimmed (the step function returning
\* only newly created paths).
C6_DeadendedNeverReactivated ==
    /\ op = "tick" =>
           \A i \in 1..Len(stepped) :
               Len(stepped[i].successors) = 0 =>
                   stepped[i].path \in Range(deadended)
    /\ \A p \in Range(deadended) :
           p \notin Range(active) /\ p \notin Range(trimmed)
    /\ IsPrefix(pre.deadended, deadended)

\* A path deadended in the first round; a second round and an untrim later,
\* other paths are active.
C6_Witness ==
    /\ Len(deadended) > 0
    /\ current_tick = 2
    /\ op = "untrim"
    /\ Len(active) > 0

\* C7: a path belongs to at most one of active and trimmed, and occurs there
\* at most once, in every state reachable by tick, trim, untrim and run (the
\* seeds being distinct and the step function returning only newly created,
\* pairwise distinct paths).
C7_ActiveTrimmedDisjoint ==
    LET alive == active \o trimmed IN
    \A i, j \in 1..Len(alive) : alive[i] = alive[j] => i = j

\* Inside run, an untrim has returned a parked path to active while another
\* path stays parked.
C7_Witness ==
    /\ pc = "run_stop"
    /\ Len(active) > Len(pre.active)
    /\ Len(trimmed) > 0

\* C8: the round counter starts at 0, increases by exactly 1 on every tick()
\* (even when active is empty), is unchanged by trim() and untrim(), and never
\* decreases; one iteration of run() increases it by exactly 1.
C8_RoundCounter ==
    /\ op = "init" => current_tick = 0
    /\ op = "tick" => current_tick = pre.current_tick + 1
    /\ op \in {"trim", "untrim"} => current_tick = pre.current_tick
    /\ current_tick >= pre.current_tick
    /\ runlog.status = "running" =>
           current_tick = runlog.tick0 + runlog.rounds
                          - (IF pc = "run_tick" THEN 1 ELSE 0)

\* A tick of an empty active has counted a round.
C8_Witness ==
    /\ op = "tick"
    /\ Len(pre.active) = 0
    /\ current_tick = 2

\* C9: run(n=k) performs at most k rounds, even when every step produces
\* successors so that done never holds; for k <= 0, or when done holds at
\* entry, it performs no round and leaves the state unchanged.
C9_RunBudget ==
    /\ ~IsNone(runlog.n0) =>
           /\ runlog.rounds <= Max(Val(runlog.n0), 0)
           /\ pc \in {"run_while", "run_tick", "run_trim", "run_untrim",
                      "run_stop", "run_pause", "pdb", "run_dec"} =>
                  Val(n) = Val(runlog.n0) - runlog.rounds
                           + (IF pc = "run_while" THEN 0 ELSE 1)
    /\ runlog.entry # << >> =>
           /\ runlog.rounds = 0
           /\ Snapshot = runlog.entry
           /\ pc \in {"run_while", "idle"}

\* run(n=2) has returned after two rounds with paths still active.
C9_Witness ==
    /\ runlog.status = "returned"
    /\ runlog.n0 = Some(2)
    /\ runlog.rounds = 2
    /\ Len(active) > 0

\* C10: run halts as soon as it reads a stop request, completing no further
\* round and leaving active, trimmed, deadended, errored and the round counter
\* as they were at the end of the last completed round; when run is invoked
\* again, exploration continues from exactly that state and the round
\* numbering continues.
C10_StopAndResume ==
    /\ runlog.stop_seen =>
           /\ pc = "idle"
           /\ runlog.status = "stopped"
           /\ Snapshot = runlog.round_end
    /\ runlog.resumed_from # << >> =>
           /\ pc = "run_while" => Snapshot = runlog.resumed_from
           /\ pc = "run_tick" => Snapshot = runlog.resumed_from
           /\ pc = "run_trim" =>
                  /\ pre = runlog.resumed_from
                  /\ current_tick = runlog.resumed_from.current_tick + 1

\* A run stopped after its first round has been called again with the flag
\* cleared and has ticked the paths the stopped run left active.
C10_Witness ==
    /\ runlog.resumed_from # << >>
    /\ pc = "run_trim"
    /\ ~STOP_RUNS
    /\ Len(pre.active) > 0
    /\ current_tick = 2

\* C11: the control plane is consulted before each iteration of run and
\* STOP_RUNS is sticky, so a run() that reaches its loop test while the flag
\* is set begins no iteration: it performs no tick.
C11_NoIterationWhileStopSet ==
    [][(pc = "run_while" /\ STOP_RUNS) => pc' # "run_tick"]_vars

\* C13: deadended and errored are append-only logs: every earlier value is a
\* prefix of every later one; trim and untrim leave deadended, errored and
\* the concurrency limit unchanged, and tick leaves trimmed and the
\* concurrency limit unchanged.
C13_AppendOnlyLogs ==
    [][/\ IsPrefix(deadended, deadended')
       /\ IsPrefix(errored, errored')
       /\ max_concurrency' = max_concurrency
       /\ pc' \in {"run_untrim", "run_stop"} /\ pc' # pc =>
              deadended' = deadended /\ errored' = errored
       /\ pc' = "run_trim" /\ pc' # pc => trimmed' = trimmed
       /\ pc = "idle" /\ pc' = "idle" /\ op' \in {"trim", "untrim"} =>
              deadended' = deadended /\ errored' = errored
       /\ pc = "idle" /\ pc' = "idle" /\ op' = "tick" => trimmed' = trimmed
      ]_vars

\* Both logs hold a path of the first round and a path of the second, while
\* a path is parked.
C13_Witness ==
    /\ Len(deadended) >= 2
    /\ Len(errored) >= 2
    /\ Len(trimmed) > 0
    /\ current_tick = 2

\* The state at the end of a round of run, or after the return that follows.
AtRoundEnd ==
    /\ runlog.rounds > 0
    /\ pc \in {"run_stop", "run_pause", "pdb", "run_dec", "run_while", "idle"}

\* C18: admission is work-conserving at round boundaries: after every
\* completed round with a limit N >= 0, len(active) <= N, and trimmed
\* non-empty implies len(active) = N; the untrim of a round never returns a
\* path that the trim of the same round has just parked; for N >= 1, done at
\* a round boundary implies that trimmed is empty.
C18_WorkConserving ==
    (AtRoundEnd /\ max_concurrency >= 0) =>
        /\ Len(active) <= max_concurrency
        /\ Len(trimmed) > 0 => Len(active) = max_concurrency
        /\ op = "untrim" /\ pair.phase = "pair"
        /\ LET justParked == {pre.trimmed[i] :
                                 i \in (pair.parked + 1)..Len(pre.trimmed)}
               returned == {active[i] :
                                 i \in (Len(pre.active) + 1)..Len(active)}
           IN  justParked \cap returned = {}
        /\ (max_concurrency >= 1 /\ done) => Len(trimmed) = 0

\* A round whose trim parked a path has ended with active at the limit.
C18_Witness ==
    /\ AtRoundEnd
    /\ max_concurrency = 2
    /\ Len(active) = 2
    /\ Len(pre.trimmed) > pair.parked
    /\ Len(trimmed) > 0

\* C19: in an execution that consists of construction followed only by run()
\* calls, every tick steps at most concurrency-limit paths, from the first
\* round on (stated here for limits of at least one).
C19_TickStepsAtMostLimit ==
    (op = "tick" /\ max_concurrency >= 1) => Len(stepped) <= max_concurrency

\* C12: with the stop and single-step flags set asynchronously at any point of
\* run, both are read only at round boundaries: a round that has started its
\* tick completes its trim and untrim before run stops or pauses, and after
\* STOP_RUNS is set (and not cleared) at most one further tick is started
\* before run returns.
C12_FlagsReadAtRoundBoundaries ==
    /\ (runlog.status = "stopped" \/ pc = "pdb") =>
           /\ op = "untrim"
           /\ pair.phase = "pair"
           /\ runlog.rounds > 0
    /\ runlog.late <= 1
    /\ runlog.late = 1 => STOP_RUNS
    /\ (runlog.late = 1 /\ pc # "idle") =>
           pc \in {"run_trim", "run_untrim", "run_stop"}

\* STOP_RUNS was set while run was about to tick; the run has ticked once
\* more, finished the round and stopped.
C12_Witness ==
    /\ runlog.status = "stopped"
    /\ runlog.late = 1
    /\ runlog.rounds = 2
    /\ STOP_RUNS

\* C14: under the default policy trimmed is a FIFO queue: trim parks paths at
\* the back of trimmed in the order they had in active and leaves a prefix of
\* active in place, untrim takes the paths it returns from the front of
\* trimmed and appends them to active in the order they were parked, and tick
\* does not touch trimmed.
C14_TrimmedIsFifo ==
    /\ op = "trim" =>
           /\ IsPrefix(active, pre.active)
           /\ IsPrefix(pre.trimmed, trimmed)
           /\ active \o SubSeq(trimmed, Len(pre.trimmed) + 1, Len(trimmed))
                  = pre.active
    /\ op = "untrim" =>
           /\ IsPrefix(pre.active, active)
           /\ Len(trimmed) <= Len(pre.trimmed)
           /\ SubSeq(active, Len(pre.active) + 1, Len(active)) \o trimmed
                  = pre.trimmed
    /\ op = "tick" => trimmed = pre.trimmed

\* Two paths were parked by different trims; an untrim has returned the one
\* parked first and the other stays parked.
C14_Witness ==
    /\ op = "untrim"
    /\ Len(pre.trimmed) >= 2
    /\ Len(active) = Len(pre.active) + 1
    /\ Len(trimmed) >= 1
    /\ active[Len(active)] = pre.trimmed[1]
    /\ current_tick = 2

\* C16: construction seeds active from exactly one of three modes: with
\* neither start nor starts, exactly one path; with only start, exactly one
\* path; with only starts, one path per element; when both are supplied only
\* one of them determines the seed set.  In every case deadended, errored and
\* trimmed are empty and the round counter is 0.
C16_SeedFromOneMode ==
    (op = "init" /\ ~IsNone(ctor)) =>
        LET start == Val(ctor).start
            starts == Val(ctor).starts
        IN  /\ (IsNone(start) /\ IsNone(starts)) => Len(active) = 1
            /\ (~IsNone(start) /\ IsNone(starts)) => Len(active) = 1
            /\ (IsNone(start) /\ ~IsNone(starts)) =>
                   Len(active) = Len(Val(starts))
            /\ (~IsNone(start) /\ ~IsNone(starts)) =>
                   Len(active) \in {1, Len(Val(starts))}
            /\ deadended = << >>
            /\ errored = << >>
            /\ trimmed = << >>
            /\ current_tick = 0

\* C17: in trim(), a path for which trim_path signals exclusion is removed
\* from active before the cap is applied and is not appended to trimmed, to
\* deadended or to errored; the cap is applied to the surviving paths only,
\* so len(active) + len(trimmed) decreases by exactly the number of excluded
\* paths, and such a path is never returned by a later untrim.
C17_FilterDropsWithoutParking ==
    /\ op = "trim" =>
           LET gone == {p \in Range(pre.active) : p \in excluded}
               surviving == SelectSeq(pre.active, LAMBDA p : p \notin excluded)
               parked == SubSeq(trimmed, Len(pre.trimmed) + 1, Len(trimmed))
           IN  /\ Range(active) \cap gone = {}
               /\ Range(trimmed) \cap gone = {}
               /\ deadended = pre.deadended
               /\ errored = pre.errored
               /\ IsPrefix(pre.trimmed, trimmed)
               /\ active \o parked = surviving
               /\ max_concurrency >= 0 =>
                      Len(active) = Min(max_concurrency, Len(surviving))
               /\ Len(active) + Len(trimmed) =
                      Len(pre.active) + Len(pre.trimmed) - Cardinality(gone)
    /\ (Range(active) \cup Range(trimmed)) \cap dropped = {}

\* A trim has removed an excluded path from the middle of active and parked
\* the overflow of the survivors.
C17_Witness ==
    /\ op = "trim"
    /\ excluded \cap Range(pre.active) # {}
    /\ Len(trimmed) > Len(pre.trimmed)
    /\ Len(active) >= 1
    /\ \E i \in 1..Len(pre.active) :
           /\ pre.active[i] \in excluded
           /\ i < Len(pre.active)
           /\ pre.active[i + 1] \notin excluded

\* An untrim has returned a parked path after a trim dropped another.
C17_WitnessLater ==
    /\ op = "untrim"
    /\ dropped # {}
    /\ Len(active) > Len(pre.active)

\* C20 as claimed: if the step function faults while tick() is processing the
\* i-th path of the snapshot, the fault propagates out of tick and out of run
\* (the run takes no further step of its round; pc is at most at the entry of
\* a later run) and active, trimmed, deadended, errored and the round counter all have the
\* values they had before the tick started.
C20_FaultLeavesStateUnchanged ==
    op = "tick_fault" =>
        /\ pc \in {"idle", "run_while", "run_tick"}
        /\ Snapshot = pre

\* C20 as amended: the fault propagates out of tick and out of run; active,
\* trimmed and the round counter have the values they had before the tick
\* started, while deadended and errored have grown by the entries of the
\* paths processed before the i-th: those without successors and those with
\* error records, in order.
C20_FaultKeepsEarlierAppends ==
    op = "tick_fault" =>
        /\ pc \in {"idle", "run_while", "run_tick"}
        /\ active = pre.active
        /\ trimmed = pre.trimmed
        /\ current_tick = pre.current_tick
        /\ Len(stepped) < Len(pre.active)
        /\ \A i \in 1..Len(stepped) : stepped[i].path = pre.active[i]
        /\ deadended = pre.deadended \o PathsWhere(stepped, NoSuccessors)
        /\ errored = pre.errored \o PathsWhere(stepped, HasErrors)

\* The step of the second path of active has faulted inside run after the
\* first path was recorded as deadended and as errored.
C20_Witness ==
    /\ op = "tick_fault"
    /\ runlog.status = "raised"
    /\ Len(stepped) = 1
    /\ Len(deadended) = Len(pre.deadended) + 1
    /\ Len(errored) = Len(pre.errored) + 1

\* C15: when run() is driven to completion with a concurrency limit >= 1, the
\* default filter and a finite exploration tree, every path placed in trimmed
\* is eventually moved back to active and eventually stepped by a tick, and
\* run eventually returns with both active and trimmed empty.
C15_DeferredWorkRuns ==
    /\ \A p \in 1..MaxPaths :
           (p \in Range(trimmed)) ~> (p \in Range(active))
    /\ \A p \in 1..MaxPaths :
           (p \in Range(trimmed)) ~>
               (op = "tick" /\ \E i \in 1..Len(stepped) : stepped[i].path = p)
    /\ <>(runlog.status = "returned" /\ Len(active) = 0 /\ Len(trimmed) = 0)

\* run has returned with active and trimmed empty after a path that waited in
\* trimmed deadended later than a path created after it.
C15_Witness ==
    /\ runlog.status = "returned"
    /\ Len(active) = 0
    /\ Len(trimmed) = 0
    /\ current_tick >= 3
    /\ \E i, j \in 1..Len(deadended) : i < j /\ deadended[i] > deadended[j]

====
